---- MODULE Spec2Model ----
(***************************************************************************)
(* The rig model of securebio/uvc-power (src/src/rig.py): workers rotating *)
(* between the rig ("on") and the mainland ("off"), an S-E-I-R infection   *)
(* per worker, the daily step of run_simulation, and the surveillance      *)
(* metrics computed from a finished simulation.                            *)
(*                                                                         *)
(* Rates are exact rationals [num, den]; a call of random() is a value     *)
(* u / RandDen with 0 <= u < RandDen.                                      *)
(***************************************************************************)
EXTENDS Integers, Sequences, FiniteSets, TLC

VARIABLES
    params,          \* the arguments of run_simulation
    sim,             \* the snapshots accumulated so far (sim[d + 1] is day d)
    rates,           \* the RateMap last handed to expose
    pc,              \* "running" | "returned" | "raised" | "counted" | "cases"
    err,             \* the exception that ended the run, or "none"
    test_frequency,  \* the argument of count_first_positive_tests
    first_pos,       \* list(count_first_positive_tests(sim, test_frequency))
    t_samps,         \* the argument of sim_cases
    cases,           \* the list sim_cases returns
    test_stat_control,  \* power's first argument (d_null), one value per replicate
    test_stat_alt,      \* power's second argument (d_alt), one value per replicate
    alpha,              \* power's third argument, a rational
    power_pc,           \* "idle" | "called" | "returned"
    power_value,        \* the value power returns, a rational
    rng_stream,         \* the values the module-level random() returns, in call order
    rng_pos,            \* the number of calls of random() made so far
    rep_sims,           \* rep_sims[r]: the snapshots replicate r has accumulated
    viruses,            \* sim_multiple_viruses: the list of Virus records
    reduction_factor,   \* sim_multiple_viruses: the factor applied to each r0
    mv_t_samps,         \* sim_multiple_viruses: its t_samps argument
    mv_params,          \* sim_multiple_viruses: the shared **params
    mv_pc,              \* "idle" | "running" | "returned"
    mv_runs,            \* per virus done: the arguments, simulation and result of sim_cases
    mv_total,           \* the list sim_multiple_viruses returns
    sp_args,            \* sim_power: n_sims, n_days, r0, reduction_factors, t_pos, **params
    sp_pc,              \* "idle" | "simulating" | "counted" | "differences" | "returned" | "raised"
    sp_err,             \* the exception that ended sim_power, or "none"
    sims_control,       \* sim_power: the control simulations done so far
    sims_uv,            \* sim_power: per reduction factor, the simulations done so far
    pos_tests_control,  \* [n_days row][replicate]
    pos_tests_uv,       \* [n_days row][reduction factor][replicate]
    d_null,             \* [n_days row][replicate]
    d_alt,              \* [n_days row][reduction factor][replicate]
    sp_power,           \* the array sim_power returns: [n_days row][reduction factor]
    heap,               \* the Worker objects created so far, indexed by identity
    crews,              \* the list accumulate builds: per snapshot, the identity at each index
    history,            \* cruise.Person: the list of (state, start day) pairs
    asked,              \* the day of the last get_state_on_day call, or "none"
    answer              \* what that call returned, or the exception it raised

rigVars == <<params, sim, rates, pc, err, test_frequency, first_pos, t_samps, cases>>

powerVars == <<test_stat_control, test_stat_alt, alpha, power_pc, power_value>>

\* the state of the sensitivity analysis, which run_simulation does not touch
replicateVars == <<rng_stream, rng_pos, rep_sims>>

virusVars ==
    <<viruses, reduction_factor, mv_t_samps, mv_params, mv_pc, mv_runs, mv_total>>

simPowerVars ==
    <<sp_args, sp_pc, sp_err, sims_control, sims_uv, pos_tests_control, pos_tests_uv,
      d_null, d_alt, sp_power>>

\* run_simulation seen as Python sees it: lists of references to Worker objects
objectVars == <<heap, crews>>

\* a cruise.Person and its last lookup
personVars == <<history, asked, answer>>

analysisVars == <<powerVars, replicateVars, virusVars, simPowerVars, objectVars, personVars>>

vars == <<rigVars, analysisVars>>

----------------------------------------------------------------------------
(* Bounds of the explored inputs. *)

MaxDays == 6
MaxCrewSize == 2
MaxShiftLen == 2
MaxTChange == 2
MaxTRec == 3
MaxWorkers == 3
MaxFreq == 3
E2EDays == 30

(* random() returns a float k * 2^-53 in [0.0, 1.0); here k / RandDen. *)
RandDen == 1024

----------------------------------------------------------------------------
(* Enumerations and records. *)

ON == "on"
OFF == "off"
Shift == <<ON, OFF>>

S == "susceptible"
E == "exposed"
I == "infectious"
R == "recovered"

None == "none"

Worker(shift, shift_changed_on, infection_status, infection_status_changed_on) ==
    [shift |-> shift,
     shift_changed_on |-> shift_changed_on,
     infection_status |-> infection_status,
     infection_status_changed_on |-> infection_status_changed_on]

ScheduleEntry(length, next_shift) == [length |-> length, next_shift |-> next_shift]

Rate(num, den) == [num |-> num, den |-> den]

\* a <= b for rationals with positive denominators
RateLeq(a, b) == a.num * b.den <= b.num * a.den

\* the sum of a sequence of integers (Python's sum)
RECURSIVE SumSeq(_)
SumSeq(s) == IF s = <<>> THEN 0 ELSE Head(s) + SumSeq(Tail(s))

----------------------------------------------------------------------------
(* Agent state transitions. *)

\* change_shift comparing with > instead of >=: the rotation comes a day late
change_shift_late(worker, day, sched) ==
    LET sched_entry == sched[worker.shift]
    IN  IF day - worker.shift_changed_on > sched_entry.length
        THEN Worker(sched_entry.next_shift, day,
                    worker.infection_status, worker.infection_status_changed_on)
        ELSE worker

\* change_shift that also restarts the infection clock of the worker it rotates
change_shift_resetting_infection_day(worker, day, sched) ==
    LET sched_entry == sched[worker.shift]
    IN  IF day - worker.shift_changed_on >= sched_entry.length
        THEN Worker(sched_entry.next_shift, day, worker.infection_status, day)
        ELSE worker

\* change_shift that keeps an Infectious worker where it is
change_shift_unless_infectious(worker, day, sched) ==
    LET sched_entry == sched[worker.shift]
    IN  IF day - worker.shift_changed_on >= sched_entry.length
           /\ worker.infection_status # I
        THEN Worker(sched_entry.next_shift, day,
                    worker.infection_status, worker.infection_status_changed_on)
        ELSE worker

change_shift(worker, day, sched) ==
    LET sched_entry == sched[worker.shift]
    IN  IF day - worker.shift_changed_on >= sched_entry.length
        THEN Worker(sched_entry.next_shift, day,
                    worker.infection_status, worker.infection_status_changed_on)
        ELSE worker

\* expose without the test for Susceptible
expose_any_status(w, day, infection_rates, u) ==
    IF RateLeq(Rate(u, RandDen), infection_rates[w.shift])
    THEN Worker(w.shift, w.shift_changed_on, E, day)
    ELSE w

\* u is the value random() returns in this call, as a numerator over RandDen
expose(w, day, infection_rates, u) ==
    IF w.infection_status = S /\ RateLeq(Rate(u, RandDen), infection_rates[w.shift])
    THEN Worker(w.shift, w.shift_changed_on, E, day)
    ELSE w

\* update_infections that waits t_rec days, not t_rec - t_inf, after turning Infectious
update_infections_late_recovery(w, day, t_inf, t_rec) ==
    IF w.infection_status = E /\ day - w.infection_status_changed_on >= t_inf
    THEN Worker(w.shift, w.shift_changed_on, I, day)
    ELSE IF w.infection_status = I
            /\ day - w.infection_status_changed_on >= t_rec
         THEN Worker(w.shift, w.shift_changed_on, R, day)
         ELSE w

update_infections(w, day, t_inf, t_rec) ==
    IF w.infection_status = E /\ day - w.infection_status_changed_on >= t_inf
    THEN Worker(w.shift, w.shift_changed_on, I, day)
    ELSE IF w.infection_status = I
            /\ day - w.infection_status_changed_on >= t_rec - t_inf
         THEN Worker(w.shift, w.shift_changed_on, R, day)
         ELSE w

\* sum(<bool> for w in crew): the number of workers that pass the test
count_shift(crew, shift) ==
    Cardinality({i \in 1..Len(crew) : crew[i].shift = shift})

count_status(crew, status, shift) ==
    Cardinality({i \in 1..Len(crew) :
        (shift = None \/ crew[i].shift = shift) /\ crew[i].infection_status = status})

----------------------------------------------------------------------------
(* Population scheduler. *)

\* no staggering: every worker starts its shift on day 0
StaggerOffsetsUnstaggered(length, t_change) == <<0>>

\* range(0, length, t_change) as a sequence
StaggerOffsets(length, t_change) ==
    [k \in 1..((length + t_change - 1) \div t_change) |-> (k - 1) * t_change]

\* _generate_shift splitting crew_size over the whole rotation cycle
_generate_shift_split(shift, crew_size, sched, t_change) ==
    LET num_shift == (crew_size * sched[shift].length)
                        \div (sched[ON].length + sched[OFF].length)
        offsets == StaggerOffsets(sched[shift].length, t_change)
    IN  IF Len(offsets) = 0
        THEN <<>>
        ELSE [j \in 1..num_shift |->
                 Worker(shift, offsets[((j - 1) % Len(offsets)) + 1], S, 0)]

\* _generate_shift stamping worker k with (k * t_change) mod length
_generate_shift_wrapping(shift, crew_size, sched, t_change) ==
    LET num_shift == (crew_size * sched[shift].length) \div sched[ON].length
    IN  [j \in 1..num_shift |->
            Worker(shift, ((j - 1) * t_change) % sched[shift].length, S, 0)]

_generate_shift(shift, crew_size, sched, t_change) ==
    LET num_shift == (crew_size * sched[shift].length) \div sched[ON].length
        offsets == StaggerOffsets(sched[shift].length, t_change)
    IN  IF Len(offsets) = 0
        THEN <<>>
        ELSE [j \in 1..num_shift |->
                 Worker(shift, offsets[((j - 1) % Len(offsets)) + 1], S, 0)]

_initialize_crew(crew_size, sched, t_change) ==
    _generate_shift(Shift[1], crew_size, sched, t_change)
        \o _generate_shift(Shift[2], crew_size, sched, t_change)

----------------------------------------------------------------------------
(* Exposure model and the daily step of run_simulation. *)

schedule(p) ==
    [s \in {ON, OFF} |->
        IF s = ON THEN ScheduleEntry(p.days_on, OFF) ELSE ScheduleEntry(p.days_off, ON)]

\* the injected curve: probability p before the cutoff day, 0 from it on
mainland_infection_rate(curve, day) ==
    IF day < curve.cutoff THEN curve.p ELSE Rate(0, 1)

\* _infection_rates raises ZeroDivisionError: no worker on the rig, or t_rec = t_inf
InfectionRatesRaises(p, c) ==
    count_shift(c, ON) = 0 \/ p.t_rec - p.t_inf = 0

_infection_rates(p, c, day) ==
    LET rate_off == mainland_infection_rate(p.mainland_infection_rate, day)
        rate_on == Rate(p.r0.num * count_status(c, I, ON),
                        p.r0.den * count_shift(c, ON) * (p.t_rec - p.t_inf))
    IN  [s \in {ON, OFF} |-> IF s = OFF THEN rate_off ELSE rate_on]

\* the crew after rotation and infection progression, before exposure
Updated(p, c, day) ==
    [i \in 1..Len(c) |->
        update_infections(change_shift(c[i], day, schedule(p)), day, p.t_inf, p.t_rec)]

\* _step that leaves Recovered workers out of the next snapshot
_step_dropping_recovered(p, c, day, draws) ==
    LET updated == Updated(p, c, day)
        rs == _infection_rates(p, updated, day)
        exposed == [i \in 1..Len(updated) |-> expose(updated[i], day, rs, draws[i])]
        Kept(w) == w.infection_status # R
    IN  SelectSeq(exposed, Kept)

\* _step with the RateMap computed on the crew as it was before rotation and progression
_step_stale_rates(p, c, day, draws) ==
    LET updated == Updated(p, c, day)
        rs == _infection_rates(p, c, day)
    IN  [i \in 1..Len(updated) |-> expose(updated[i], day, rs, draws[i])]

\* draws[i] is the value of random() in the expose call of worker i
_step(p, c, day, draws) ==
    LET updated == Updated(p, c, day)
        rs == _infection_rates(p, updated, day)
    IN  [i \in 1..Len(updated) |-> expose(updated[i], day, rs, draws[i])]

----------------------------------------------------------------------------
(* Surveillance metrics. *)

tests_positive(w) == w.shift = ON /\ w.infection_status = I

\* range(0, n, step) as a sequence
Range0(n, step) == [k \in 1..((n + step - 1) \div step) |-> (k - 1) * step]

\* count_first_positive_tests counting every positive test, new or not
count_all_positive_tests(s, frequency) ==
    LET test_days == Range0(Len(s), frequency)
        Pairs == IF Len(test_days) = 0 THEN 0 ELSE Len(test_days) - 1
    IN  [k \in 1..Pairs |->
            LET crew_now == test_days[k]
            IN  Cardinality({i \in 1..Len(s[crew_now + 1]) :
                    tests_positive(s[crew_now + 1][i])})]

count_first_positive_tests(s, frequency) ==
    LET test_days == Range0(Len(s), frequency)
        Pairs == IF Len(test_days) = 0 THEN 0 ELSE Len(test_days) - 1
    IN  [k \in 1..Pairs |->
            LET crew_now == test_days[k]
                crew_past == test_days[k + 1]
                n == IF Len(s[crew_now + 1]) <= Len(s[crew_past + 1])
                     THEN Len(s[crew_now + 1]) ELSE Len(s[crew_past + 1])
            IN  Cardinality({i \in 1..n :
                    tests_positive(s[crew_now + 1][i])
                    /\ ~tests_positive(s[crew_past + 1][i])})]

sim_cases(s, samps) ==
    [k \in 1..Len(samps) |-> SumSeq(count_first_positive_tests(s, samps[k]))]

----------------------------------------------------------------------------
(* The inputs explored. *)

\* r0 as an exact rational
R0Values == {Rate(0, 1), Rate(1, 2), Rate(2, 1)}

\* mainland curves: constant 0, constant 1/2, and 1 on days 1 and 2 only
MainlandCurves ==
    {[p |-> Rate(0, 1), cutoff |-> 0],
     [p |-> Rate(1, 2), cutoff |-> MaxDays + 1],
     [p |-> Rate(1, 1), cutoff |-> 3]}

\* the values random() takes: 0.0, 0.5 and the largest float below 1.0
Draws == {0, RandDen \div 2, RandDen - 1}

Params ==
    {p \in [n_days : 1..MaxDays,
            crew_size : 1..MaxCrewSize,
            mainland_infection_rate : MainlandCurves,
            r0 : R0Values,
            t_inf : 0..(MaxTRec - 1),
            t_rec : 1..MaxTRec,
            days_on : 1..MaxShiftLen,
            days_off : 1..MaxShiftLen,
            t_change : 1..MaxTChange] :
        /\ p.t_rec > p.t_inf
        /\ Len(_initialize_crew(p.crew_size, schedule(p), p.t_change)) <= MaxWorkers}

\* the end-to-end scenario of the specification, on a horizon of E2EDays days
E2EParams ==
    [n_days |-> E2EDays,
     crew_size |-> 120,
     mainland_infection_rate |-> [p |-> Rate(1, 20), cutoff |-> 100],
     r0 |-> Rate(13, 10),
     t_inf |-> 2,
     t_rec |-> 12,
     days_on |-> 28,
     days_off |-> 28,
     t_change |-> 7]

\* the sampling-frequency lists handed to sim_cases
TSamps == {<<>>} \cup {<<f>> : f \in 1..MaxFreq} \cup {<<1, f>> : f \in 2..MaxFreq}

NoRates == [s \in {ON, OFF} |-> Rate(0, 1)]

----------------------------------------------------------------------------
(* run_simulation: crew = _initialize_crew(...), then accumulate(days, _step). *)

\* range(1, n_days + 1): one day too many
DaysInclusive(n_days) == [k \in 1..n_days |-> k]

\* range(1, n_days) as a sequence
Days(n_days) == [k \in 1..(n_days - 1) |-> k]

\* power has not been called
PowerIdle ==
    /\ test_stat_control = <<>>
    /\ test_stat_alt = <<>>
    /\ alpha = Rate(0, 1)
    /\ power_pc = "idle"
    /\ power_value = Rate(0, 1)

\* no replicate has been started
ReplicatesIdle ==
    /\ rng_stream = <<>>
    /\ rng_pos = 0
    /\ rep_sims = <<>>

\* sim_multiple_viruses has not been called
VirusesIdle ==
    /\ viruses = <<>>
    /\ reduction_factor = Rate(1, 1)
    /\ mv_t_samps = <<>>
    /\ mv_params = None
    /\ mv_pc = "idle"
    /\ mv_runs = <<>>
    /\ mv_total = <<>>

\* sim_power has not been called
SimPowerIdle ==
    /\ sp_args = None
    /\ sp_pc = "idle"
    /\ sp_err = None
    /\ sims_control = <<>>
    /\ sims_uv = <<>>
    /\ pos_tests_control = <<>>
    /\ pos_tests_uv = <<>>
    /\ d_null = <<>>
    /\ d_alt = <<>>
    /\ sp_power = <<>>

ObjectsIdle ==
    /\ heap = <<>>
    /\ crews = <<>>

PersonIdle ==
    /\ history = <<>>
    /\ asked = None
    /\ answer = None

InitWith(p) ==
    /\ PersonIdle
    /\ ObjectsIdle
    /\ SimPowerIdle
    /\ PowerIdle
    /\ ReplicatesIdle
    /\ VirusesIdle
    /\ params = p
    /\ sim = <<_initialize_crew(p.crew_size, schedule(p), p.t_change)>>
    /\ rates = NoRates
    /\ pc = "running"
    /\ err = None
    /\ test_frequency = 0
    /\ first_pos = <<>>
    /\ t_samps = <<>>
    /\ cases = <<>>

Init == \E p \in Params : InitWith(p)

InitE2E == InitWith(E2EParams)

\* every assignment of a draw to each of n workers
AllDraws(n) == [1..n -> Draws]

\* the assignments that give all n workers the same draw
SameDraws(n) == {[i \in 1..n |-> u] : u \in Draws}

DrawVectors(vectors, n) == IF vectors = "same" THEN SameDraws(n) ELSE AllDraws(n)

\* one iteration of accumulate: the next day's _step, or the exception it raises
StepWith(vectors) ==
    /\ pc = "running"
    /\ Len(sim) <= Len(Days(params.n_days))
    /\ LET day == Days(params.n_days)[Len(sim)]
           c == sim[Len(sim)]
           updated == Updated(params, c, day)
       IN  IF InfectionRatesRaises(params, updated)
           THEN /\ pc' = "raised"
                /\ err' = "ZeroDivisionError"
                /\ UNCHANGED <<sim, rates>>
           ELSE \E draws \in DrawVectors(vectors, Len(c)) :
                /\ sim' = Append(sim, _step(params, c, day, draws))
                /\ rates' = _infection_rates(params, updated, day)
                /\ UNCHANGED <<pc, err>>
    /\ UNCHANGED <<params, test_frequency, first_pos, t_samps, cases>>
    /\ UNCHANGED analysisVars

Step == StepWith("all")

StepSameDraws == StepWith("same")

\* days is exhausted: run_simulation returns the list of snapshots
Return ==
    /\ pc = "running"
    /\ Len(sim) > Len(Days(params.n_days))
    /\ pc' = "returned"
    /\ UNCHANGED <<params, sim, rates, err, test_frequency, first_pos, t_samps, cases>>
    /\ UNCHANGED analysisVars

\* list(count_first_positive_tests(sim, f)) on the returned simulation
CountFirstPositiveTests ==
    /\ pc = "returned"
    /\ \E f \in 1..MaxFreq :
        /\ test_frequency' = f
        /\ first_pos' = count_first_positive_tests(sim, f)
    /\ pc' = "counted"
    /\ UNCHANGED <<params, sim, rates, err, t_samps, cases>>
    /\ UNCHANGED analysisVars

\* sim_cases: its return value for the simulation it ran
SimCases ==
    /\ pc = "returned"
    /\ \E ts \in TSamps :
        /\ t_samps' = ts
        /\ cases' = sim_cases(sim, ts)
    /\ pc' = "cases"
    /\ UNCHANGED <<params, sim, rates, err, test_frequency, first_pos>>
    /\ UNCHANGED analysisVars

Next == Step \/ Return \/ CountFirstPositiveTests \/ SimCases

Spec == Init /\ [][Next]_vars

NextE2E == StepSameDraws \/ Return \/ CountFirstPositiveTests \/ SimCases

SpecE2E == InitE2E /\ [][NextE2E]_vars

----------------------------------------------------------------------------
(* rig_sensitivity_analysis.power, on one row of replicates: np.quantile    *)
(* with its default linear interpolation, then np.mean of the comparison.   *)
(* The explored alphas are dyadic and the statistics small integers, so     *)
(* numpy's floating-point results are the exact rationals computed here.    *)

MaxSims == 3
MaxStat == 1

\* run_simulation has not been called
RigIdle ==
    /\ params = None
    /\ sim = <<>>
    /\ rates = NoRates
    /\ pc = "idle"
    /\ err = None
    /\ test_frequency = 0
    /\ first_pos = <<>>
    /\ t_samps = <<>>
    /\ cases = <<>>

\* x placed into the ascending sequence s
InsertSorted(x, s) ==
    LET below == Cardinality({i \in 1..Len(s) : s[i] <= x})
    IN  [i \in 1..(Len(s) + 1) |->
            IF i <= below THEN s[i] ELSE IF i = below + 1 THEN x ELSE s[i - 1]]

RECURSIVE Sorted(_)
Sorted(a) == IF a = <<>> THEN <<>> ELSE InsertSorted(Head(a), Sorted(Tail(a)))

\* np.quantile(a, q), method "linear": the value at index q * (n - 1) of sorted a
Quantile(a, q) ==
    LET srt == Sorted(a)
        n == Len(a)
        pos == q.num * (n - 1)
        lo == pos \div q.den
        hi == IF lo + 1 < n THEN lo + 1 ELSE lo
        frac == pos % q.den
    IN  Rate(srt[lo + 1] * q.den + frac * (srt[hi + 1] - srt[lo + 1]), q.den)

\* power comparing with >= : a replicate equal to the threshold is counted
power_counting_ties(control, alt, a) ==
    LET t_thresh == Quantile(control, Rate(a.den - a.num, a.den))
        above == [r \in 1..Len(alt) |->
                     IF RateLeq(t_thresh, Rate(alt[r], 1)) THEN 1 ELSE 0]
    IN  Rate(SumSeq(above), Len(above))

power(control, alt, a) ==
    LET t_thresh == Quantile(control, Rate(a.den - a.num, a.den))
        above == [r \in 1..Len(alt) |->
                     IF ~RateLeq(Rate(alt[r], 1), t_thresh) THEN 1 ELSE 0]
    IN  Rate(SumSeq(above), Len(above))

Alphas == {Rate(0, 1), Rate(1, 4), Rate(1, 2), Rate(1, 1)}

\* a call power(d_null, d_alt, alpha) on n_sims replicates each
InitPower ==
    /\ RigIdle
    /\ PersonIdle
    /\ ObjectsIdle
    /\ SimPowerIdle
    /\ ReplicatesIdle
    /\ VirusesIdle
    /\ \E n_sims \in 1..MaxSims :
        /\ test_stat_control \in [1..n_sims -> (-MaxStat)..MaxStat]
        /\ test_stat_alt \in [1..n_sims -> (-MaxStat)..MaxStat]
    /\ alpha \in Alphas
    /\ power_pc = "called"
    /\ power_value = Rate(0, 1)

Power ==
    /\ power_pc = "called"
    /\ power_value' = power(test_stat_control, test_stat_alt, alpha)
    /\ power_pc' = "returned"
    /\ UNCHANGED <<test_stat_control, test_stat_alt, alpha>>
    /\ UNCHANGED <<rigVars, replicateVars, virusVars, simPowerVars, objectVars, personVars>>

NextPower == Power

SpecPower == InitPower /\ [][NextPower]_vars

----------------------------------------------------------------------------
(* Replicates of sim_power: each is a run_simulation, and every expose of   *)
(* every replicate calls the one random() imported at the top of rig.py.    *)
(* expose calls it only for a Susceptible worker (the `and` short-circuits) *)
(* and _step calls expose for the workers in crew order.                    *)

RepDays == 3
NumReplicates == 2

ReplicateParams ==
    [n_days |-> RepDays,
     crew_size |-> 1,
     mainland_infection_rate |-> [p |-> Rate(1, 2), cutoff |-> RepDays + 1],
     r0 |-> Rate(2, 1),
     t_inf |-> 1,
     t_rec |-> 2,
     days_on |-> 2,
     days_off |-> 2,
     t_change |-> 2]

\* enough values for every expose call of every replicate
StreamLen ==
    NumReplicates * (RepDays - 1)
        * Len(_initialize_crew(ReplicateParams.crew_size, schedule(ReplicateParams),
                               ReplicateParams.t_change))

\* the calls of random() made by the exposes of one _step, starting at call pos + 1
StreamDraws(updated, stream, pos) ==
    [i \in 1..Len(updated) |->
        IF updated[i].infection_status = S
        THEN stream[pos + Cardinality({j \in 1..i : updated[j].infection_status = S})]
        ELSE 0]

\* the snapshot one _step of a replicate appends, with the calls it makes
ReplicateDay(c, day, stream, pos) ==
    LET updated == Updated(ReplicateParams, c, day)
    IN  [crew |-> _step(ReplicateParams, c, day, StreamDraws(updated, stream, pos)),
         pos |-> pos + count_status(updated, S, None)]

\* a replicate run to its end without interruption, from call pos + 1 on
RECURSIVE RunReplicate(_, _, _)
RunReplicate(s, stream, pos) ==
    IF Len(s) > Len(Days(ReplicateParams.n_days))
    THEN [sim |-> s, pos |-> pos]
    ELSE LET nxt == ReplicateDay(s[Len(s)], Days(ReplicateParams.n_days)[Len(s)],
                                 stream, pos)
         IN  RunReplicate(Append(s, nxt.crew), stream, nxt.pos)

\* the replicates run one after the other, as the list comprehension of sim_power does
RECURSIVE SequentialEndPos(_, _)
SequentialEndPos(r, stream) ==
    IF r = 0 THEN 0
    ELSE RunReplicate(<<_initialize_crew(ReplicateParams.crew_size,
                                         schedule(ReplicateParams),
                                         ReplicateParams.t_change)>>,
                      stream, SequentialEndPos(r - 1, stream)).pos

SequentialSims(stream) ==
    [r \in 1..NumReplicates |->
        RunReplicate(<<_initialize_crew(ReplicateParams.crew_size,
                                        schedule(ReplicateParams),
                                        ReplicateParams.t_change)>>,
                     stream, SequentialEndPos(r - 1, stream)).sim]

InitReplicates ==
    /\ RigIdle
    /\ PersonIdle
    /\ ObjectsIdle
    /\ SimPowerIdle
    /\ PowerIdle
    /\ VirusesIdle
    /\ rng_stream \in [1..StreamLen -> Draws]
    /\ rng_pos = 0
    /\ rep_sims = [r \in 1..NumReplicates |->
                     <<_initialize_crew(ReplicateParams.crew_size,
                                        schedule(ReplicateParams),
                                        ReplicateParams.t_change)>>]

\* replicate r runs its next _step
ReplicateStep(r) ==
    /\ Len(rep_sims[r]) <= Len(Days(ReplicateParams.n_days))
    /\ LET s == rep_sims[r]
           nxt == ReplicateDay(s[Len(s)], Days(ReplicateParams.n_days)[Len(s)],
                               rng_stream, rng_pos)
       IN  /\ rep_sims' = [rep_sims EXCEPT ![r] = Append(s, nxt.crew)]
           /\ rng_pos' = nxt.pos
    /\ UNCHANGED rng_stream
    /\ UNCHANGED <<rigVars, powerVars, virusVars, simPowerVars, objectVars, personVars>>

NextReplicates == \E r \in 1..NumReplicates : ReplicateStep(r)

SpecReplicates == InitReplicates /\ [][NextReplicates]_vars

----------------------------------------------------------------------------
(* sim_multiple_viruses: one sim_cases per virus, each a run_simulation of  *)
(* its own, then the element-wise sum of the lists they return. Unpacking   *)
(* the generator into zip exhausts it, so every simulation has run before   *)
(* the first sum is taken.                                                  *)

MaxViruses == 2
VirusDays == 4

\* a Virus; curve stands for _gaussian_infection_rates(duration, peak, total_prev)
Viruses ==
    {[r0 |-> Rate(2, 1), t_inf |-> 1, t_rec |-> 2,
      curve |-> [p |-> Rate(1, 2), cutoff |-> VirusDays + 1]],
     [r0 |-> Rate(1, 2), t_inf |-> 0, t_rec |-> 1,
      curve |-> [p |-> Rate(1, 1), cutoff |-> 2]]}

Portfolios == UNION {[1..n -> Viruses] : n \in 0..MaxViruses}

ReductionFactors == {Rate(1, 1), Rate(1, 2)}

\* the keyword arguments every virus's simulation shares
SharedParams ==
    {[n_days |-> VirusDays, crew_size |-> 1, days_on |-> l, days_off |-> l, t_change |-> 1] :
        l \in 1..2}

\* the arguments of run_simulation for virus v
VirusParams(v, factor, shared) ==
    [n_days |-> shared.n_days,
     crew_size |-> shared.crew_size,
     mainland_infection_rate |-> v.curve,
     r0 |-> Rate(v.r0.num * factor.num, v.r0.den * factor.den),
     t_inf |-> v.t_inf,
     t_rec |-> v.t_rec,
     days_on |-> shared.days_on,
     days_off |-> shared.days_off,
     t_change |-> shared.t_change]

\* the last list alone instead of the element-wise sum
SumZippedLastOnly(all_cases) ==
    IF all_cases = <<>> THEN <<>> ELSE all_cases[Len(all_cases)]

\* the sums over the zipped lists: zip stops at the shortest list, zip() is empty
SumZipped(all_cases) ==
    IF all_cases = <<>>
    THEN <<>>
    ELSE LET shortest ==
                 CHOOSE n \in {Len(all_cases[v]) : v \in 1..Len(all_cases)} :
                     \A v \in 1..Len(all_cases) : n <= Len(all_cases[v])
         IN  [k \in 1..shortest |->
                 SumSeq([v \in 1..Len(all_cases) |-> all_cases[v][k]])]

InitViruses ==
    /\ RigIdle
    /\ PersonIdle
    /\ ObjectsIdle
    /\ SimPowerIdle
    /\ PowerIdle
    /\ ReplicatesIdle
    /\ viruses \in Portfolios
    /\ reduction_factor \in ReductionFactors
    /\ mv_t_samps \in {<<>>, <<1>>, <<1, 2>>}
    /\ mv_params \in SharedParams
    /\ mv_pc = "running"
    /\ mv_runs = <<>>
    /\ mv_total = <<>>

\* the generator yields its next sim_cases call: run_simulation starts for the next virus
StartVirus ==
    /\ mv_pc = "running"
    /\ pc \in {"idle", "cases"}
    /\ Len(mv_runs) < Len(viruses)
    /\ LET p == VirusParams(viruses[Len(mv_runs) + 1], reduction_factor, mv_params)
       IN  /\ params' = p
           /\ sim' = <<_initialize_crew(p.crew_size, schedule(p), p.t_change)>>
    /\ rates' = NoRates
    /\ pc' = "running"
    /\ t_samps' = mv_t_samps
    /\ cases' = <<>>
    /\ UNCHANGED <<err, test_frequency, first_pos>>
    /\ UNCHANGED <<powerVars, replicateVars, virusVars, simPowerVars, objectVars, personVars>>

\* sim_cases returns for the current virus
VirusCases ==
    /\ mv_pc = "running"
    /\ pc = "returned"
    /\ cases' = sim_cases(sim, t_samps)
    /\ pc' = "cases"
    /\ mv_runs' = Append(mv_runs, [params |-> params, sim |-> sim,
                                   cases |-> sim_cases(sim, t_samps)])
    /\ UNCHANGED <<params, sim, rates, err, test_frequency, first_pos, t_samps>>
    /\ UNCHANGED <<viruses, reduction_factor, mv_t_samps, mv_params, mv_pc, mv_total>>
    /\ UNCHANGED <<powerVars, replicateVars, simPowerVars, objectVars, personVars>>

\* the generator is exhausted: the lists are zipped and summed
SumViruses ==
    /\ mv_pc = "running"
    /\ pc \in {"idle", "cases"}
    /\ Len(mv_runs) = Len(viruses)
    /\ mv_total' = SumZipped([v \in 1..Len(mv_runs) |-> mv_runs[v].cases])
    /\ mv_pc' = "returned"
    /\ UNCHANGED <<viruses, reduction_factor, mv_t_samps, mv_params, mv_runs>>
    /\ UNCHANGED <<rigVars, powerVars, replicateVars, simPowerVars, objectVars, personVars>>

NextViruses == StartVirus \/ Step \/ Return \/ VirusCases \/ SumViruses

SpecViruses == InitViruses /\ [][NextViruses]_vars

----------------------------------------------------------------------------
(* run_simulation over a wider range of rotas (crew size, shift lengths and *)
(* stagger interval), with one outbreak scenario and the same draw for all  *)
(* workers of a day.                                                        *)

RotaMaxCrew == 3
RotaMaxShiftLen == 3
RotaMaxTChange == 3
RotaDays == 7

RotaParams ==
    [n_days : {RotaDays},
     crew_size : 1..RotaMaxCrew,
     mainland_infection_rate : {[p |-> Rate(0, 1), cutoff |-> 0]},
     r0 : {Rate(1, 2)},
     t_inf : {1},
     t_rec : {2},
     days_on : 1..RotaMaxShiftLen,
     days_off : 1..RotaMaxShiftLen,
     t_change : 1..RotaMaxTChange]

InitRota == \E p \in RotaParams : InitWith(p)

NextRota == StepSameDraws \/ Return

SpecRota == InitRota /\ [][NextRota]_vars

----------------------------------------------------------------------------
(* rig_sensitivity_analysis.sim_power: n_sims control simulations and, per  *)
(* reduction factor, n_sims simulations with r0 * f; the statistic          *)
(* total_pos_tests of every simulation cut to each horizon of n_days; the   *)
(* null and alternative differences; power.                                 *)

SpMaxSims == 2

\* max(n_days)
MaxOf(s) == CHOOSE m \in {s[k] : k \in 1..Len(s)} : \A k \in 1..Len(s) : s[k] <= m

\* sim[:nd] for nd >= 0
Prefix(s, nd) == SubSeq(s, 1, IF nd < Len(s) THEN nd ELSE Len(s))

\* sum(<generators>) starts with 0 + <generator object>, a TypeError, unless
\* sim has no crew at all
TotalPosTestsRaises(s, t_pos) == s # <<>>

\* total_pos_tests(sim, t_pos) where it returns: the sum of no term
total_pos_tests(s, t_pos) == 0

SimPowerArgs ==
    [n_sims : 1..SpMaxSims,
     n_days : {<<0>>, <<2>>, <<0, 2>>, <<1, 2>>},
     r0 : {Rate(2, 1)},
     reduction_factors : {<<Rate(1, 2)>>, <<Rate(1, 2), Rate(1, 1)>>},
     t_pos : 1..2,
     params : {[crew_size |-> 1,
                mainland_infection_rate |-> [p |-> Rate(1, 2), cutoff |-> 3],
                t_inf |-> 1, t_rec |-> 2, days_on |-> 2, days_off |-> 2, t_change |-> 2]}]

\* the arguments of rig.run_simulation(r0=r0 * f, n_days=max(n_days), **params)
SimPowerRunParams(args, f) ==
    [n_days |-> MaxOf(args.n_days),
     crew_size |-> args.params.crew_size,
     mainland_infection_rate |-> args.params.mainland_infection_rate,
     r0 |-> Rate(args.r0.num * f.num, args.r0.den * f.den),
     t_inf |-> args.params.t_inf,
     t_rec |-> args.params.t_rec,
     days_on |-> args.params.days_on,
     days_off |-> args.params.days_off,
     t_change |-> args.params.t_change]

\* the reduction factor whose list of simulations is being filled, 0 for none
FactorInProgress ==
    IF \E j \in 1..Len(sims_uv) : Len(sims_uv[j]) < sp_args.n_sims
    THEN CHOOSE j \in 1..Len(sims_uv) :
             /\ Len(sims_uv[j]) < sp_args.n_sims
             /\ \A k \in 1..(j - 1) : Len(sims_uv[k]) = sp_args.n_sims
    ELSE 0

ControlInProgress == Len(sims_control) < sp_args.n_sims

InitSimPower ==
    /\ RigIdle
    /\ PersonIdle
    /\ ObjectsIdle
    /\ PowerIdle
    /\ ReplicatesIdle
    /\ VirusesIdle
    /\ sp_args \in SimPowerArgs
    /\ sp_pc = "simulating"
    /\ sp_err = None
    /\ sims_control = <<>>
    /\ sims_uv = [j \in 1..Len(sp_args.reduction_factors) |-> <<>>]
    /\ pos_tests_control = <<>>
    /\ pos_tests_uv = <<>>
    /\ d_null = <<>>
    /\ d_alt = <<>>
    /\ sp_power = <<>>

\* the next rig.run_simulation of the list comprehensions starts
StartReplicate ==
    /\ sp_pc = "simulating"
    /\ pc \in {"idle", "collected"}
    /\ ControlInProgress \/ FactorInProgress # 0
    /\ LET f == IF ControlInProgress THEN Rate(1, 1)
                ELSE sp_args.reduction_factors[FactorInProgress]
           p == SimPowerRunParams(sp_args, f)
       IN  /\ params' = p
           /\ sim' = <<_initialize_crew(p.crew_size, schedule(p), p.t_change)>>
    /\ rates' = NoRates
    /\ pc' = "running"
    /\ UNCHANGED <<err, test_frequency, first_pos, t_samps, cases>>
    /\ UNCHANGED analysisVars

\* the simulation that returned is appended to its list
CollectReplicate ==
    /\ sp_pc = "simulating"
    /\ pc = "returned"
    /\ IF ControlInProgress
       THEN /\ sims_control' = Append(sims_control, sim)
            /\ UNCHANGED sims_uv
       ELSE /\ sims_uv' = [sims_uv EXCEPT ![FactorInProgress] = Append(@, sim)]
            /\ UNCHANGED sims_control
    /\ pc' = "collected"
    /\ UNCHANGED <<params, sim, rates, err, test_frequency, first_pos, t_samps, cases>>
    /\ UNCHANGED <<sp_args, sp_pc, sp_err, pos_tests_control, pos_tests_uv,
                   d_null, d_alt, sp_power>>
    /\ UNCHANGED <<powerVars, replicateVars, virusVars, objectVars, personVars>>

\* pos_tests_control and pos_tests_uv: total_pos_tests of every simulation cut to
\* every horizon, or the exception the first raising call ends sim_power with
PosTests ==
    /\ sp_pc = "simulating"
    /\ pc \in {"idle", "collected"}
    /\ ~ControlInProgress
    /\ FactorInProgress = 0
    /\ IF \E i \in 1..Len(sp_args.n_days) :
            \/ \E r \in 1..Len(sims_control) :
                TotalPosTestsRaises(Prefix(sims_control[r], sp_args.n_days[i]),
                                    sp_args.t_pos)
            \/ \E j \in 1..Len(sims_uv) : \E r \in 1..Len(sims_uv[j]) :
                TotalPosTestsRaises(Prefix(sims_uv[j][r], sp_args.n_days[i]),
                                    sp_args.t_pos)
       THEN /\ sp_pc' = "raised"
            /\ sp_err' = "TypeError"
            /\ UNCHANGED <<pos_tests_control, pos_tests_uv>>
       ELSE /\ pos_tests_control' =
                [i \in 1..Len(sp_args.n_days) |->
                    [r \in 1..Len(sims_control) |->
                        total_pos_tests(Prefix(sims_control[r], sp_args.n_days[i]),
                                        sp_args.t_pos)]]
            /\ pos_tests_uv' =
                [i \in 1..Len(sp_args.n_days) |->
                    [j \in 1..Len(sims_uv) |->
                        [r \in 1..Len(sims_uv[j]) |->
                            total_pos_tests(Prefix(sims_uv[j][r], sp_args.n_days[i]),
                                            sp_args.t_pos)]]]
            /\ sp_pc' = "counted"
            /\ UNCHANGED sp_err
    /\ UNCHANGED <<sp_args, sims_control, sims_uv, d_null, d_alt, sp_power>>
    /\ UNCHANGED <<rigVars, powerVars, replicateVars, virusVars, objectVars, personVars>>

\* the orders rng.permutation can give to n replicates
ReplicateOrders(n) ==
    {pi \in [1..n -> 1..n] : \A a, b \in 1..n : pi[a] = pi[b] => a = b}

\* d_null and d_alt; Generator.permutation reorders the replicate axis as a whole,
\* so every row is permuted alike
Differences ==
    /\ sp_pc = "counted"
    /\ \E pi \in ReplicateOrders(sp_args.n_sims) :
        d_null' = [i \in 1..Len(pos_tests_control) |->
                      [r \in 1..sp_args.n_sims |->
                          pos_tests_control[i][r] - pos_tests_control[i][pi[r]]]]
    /\ d_alt' = [i \in 1..Len(pos_tests_control) |->
                    [j \in 1..Len(pos_tests_uv[i]) |->
                        [r \in 1..sp_args.n_sims |->
                            pos_tests_control[i][r] - pos_tests_uv[i][j][r]]]]
    /\ sp_pc' = "differences"
    /\ UNCHANGED <<sp_args, sp_err, sims_control, sims_uv, pos_tests_control,
                   pos_tests_uv, sp_power>>
    /\ UNCHANGED <<rigVars, powerVars, replicateVars, virusVars, objectVars, personVars>>

\* return power(d_null, d_alt), alpha at its default 0.05
ReturnPower ==
    /\ sp_pc = "differences"
    /\ sp_power' = [i \in 1..Len(d_null) |->
                       [j \in 1..Len(d_alt[i]) |->
                           power(d_null[i], d_alt[i][j], Rate(1, 20))]]
    /\ sp_pc' = "returned"
    /\ UNCHANGED <<sp_args, sp_err, sims_control, sims_uv, pos_tests_control,
                   pos_tests_uv, d_null, d_alt>>
    /\ UNCHANGED <<rigVars, powerVars, replicateVars, virusVars, objectVars, personVars>>

NextSimPower ==
    \/ StartReplicate
    \/ StepSameDraws
    \/ Return
    \/ CollectReplicate
    \/ PosTests
    \/ Differences
    \/ ReturnPower

SpecSimPower == InitSimPower /\ [][NextSimPower]_vars

----------------------------------------------------------------------------
(* Properties. Snapshot d of the run is sim[d + 1]. *)

Finished == pc \in {"returned", "counted", "cases"}

\* the order S < E < I < R
StatusRank(st) == CASE st = S -> 0 [] st = E -> 1 [] st = I -> 2 [] st = R -> 3

SomeWorkerRotated ==
    \E d \in 1..(Len(sim) - 1) : \E i \in 1..Len(sim[d]) :
        sim[d + 1][i].shift # sim[d][i].shift

SomeWorkerIs(st) ==
    \E i \in 1..Len(sim[Len(sim)]) : sim[Len(sim)][i].infection_status = st

(* C1: count_first_positive_tests(sim, f) yields, for each pair of          *)
(* consecutive sampled days a = (k-1)*f and b = k*f, both < len(sim), the   *)
(* number of workers who test positive in snapshot b (the later day) and    *)
(* do not test positive in snapshot a (the earlier day).                    *)
C1_CountsNewlyPositiveAtLaterDay ==
    pc = "counted" =>
        first_pos =
            [k \in 1..((Len(sim) - 1) \div test_frequency) |->
                Cardinality({i \in 1..Len(sim[1]) :
                    /\ tests_positive(sim[k * test_frequency + 1][i])
                    /\ ~tests_positive(sim[(k - 1) * test_frequency + 1][i])})]

(* C2: for every worker the infection status over consecutive snapshots is  *)
(* non-decreasing in the order S < E < I < R, and a worker that is not      *)
(* Susceptible is never set back to Exposed: it is Exposed in the next      *)
(* snapshot only if it already was, since the same day.                     *)
C2_InfectionStatusNeverRegresses ==
    \A d \in 1..(Len(sim) - 1) : \A i \in 1..Len(sim[d]) :
        LET before == sim[d][i]
            after == sim[d + 1][i]
        IN  /\ StatusRank(before.infection_status) <= StatusRank(after.infection_status)
            /\ (before.infection_status # S /\ after.infection_status = E) =>
                   /\ before.infection_status = E
                   /\ after.infection_status_changed_on
                          = before.infection_status_changed_on

\* a finished run in which a worker went all the way to Recovered
C2_Witness == Finished /\ SomeWorkerIs(R)

(* C3: a worker's shift differs between snapshot d-1 and snapshot d only if *)
(* d - shift_changed_on = schedule[shift].length exactly for the worker of  *)
(* snapshot d-1 (the difference is never greater), and then the worker of   *)
(* snapshot d is on next_shift with shift_changed_on = d; on every other    *)
(* day shift and shift_changed_on are unchanged.                            *)
C3_RotationOnExactDay ==
    \A d \in 1..(Len(sim) - 1) : \A i \in 1..Len(sim[d]) :
        LET before == sim[d][i]
            after == sim[d + 1][i]
            entry == schedule(params)[before.shift]
        IN  /\ d - before.shift_changed_on <= entry.length
            /\ IF d - before.shift_changed_on = entry.length
               THEN /\ after.shift = entry.next_shift
                    /\ after.shift_changed_on = d
               ELSE /\ after.shift = before.shift
                    /\ after.shift_changed_on = before.shift_changed_on

\* a finished run in which a worker rotated and another day passed without
\* rotating it again
C3_Witness ==
    /\ Finished
    /\ \E d \in 1..(Len(sim) - 2) : \E i \in 1..Len(sim[d]) :
        /\ sim[d + 1][i].shift # sim[d][i].shift
        /\ sim[d + 2][i].shift = sim[d + 1][i].shift

(* C4: every snapshot has the same number of workers as snapshot 0.         *)
C4_PopulationSizeConstant ==
    \A d \in 1..Len(sim) : Len(sim[d]) = Len(sim[1])

\* a finished run with a rotation, an exposure and a recovery behind it
C4_Witness ==
    /\ Finished
    /\ Len(sim) = MaxDays
    /\ SomeWorkerRotated
    /\ SomeWorkerIs(R)
    /\ SomeWorkerIs(S)

C6_ReturnsOneSnapshotPerDay ==
    pc = "returned" =>
        /\ Len(sim) = params.n_days
        /\ \A i \in 1..Len(sim[1]) :
            /\ sim[1][i].infection_status = S
            /\ sim[1][i].infection_status_changed_on = 0
        /\ \A d \in 1..(params.n_days - 1) :
            \E draws \in AllDraws(Len(sim[d])) :
                sim[d + 1] = _step(params, sim[d], d, draws)

\* a run over the longest horizon returned, with an exposure on the way
C6_Witness ==
    /\ pc = "returned"
    /\ params.n_days = MaxDays
    /\ \E i \in 1..Len(sim[Len(sim)]) : sim[Len(sim)][i].infection_status # S

\* the workers who are on the rig and Infectious in at least one snapshot
EverPositive ==
    {i \in 1..Len(sim[1]) : \E d \in 1..Len(sim) : tests_positive(sim[d][i])}

C8_SimCasesLeadsWithImportedCases ==
    pc = "cases" =>
        LET Imported(d) ==
                Cardinality({i \in 1..Len(sim[d + 1]) :
                    /\ sim[d + 1][i].shift_changed_on = d
                    /\ sim[d + 1][i].infection_status \in {E, I}})
            imported_cases == SumSeq([d \in 1..(Len(sim) - 1) |-> Imported(d)])
        IN  /\ Len(cases) = Len(t_samps) + 1
            /\ cases[1] = imported_cases
            /\ \A k \in 1..Len(t_samps) :
                cases[k + 1] = SumSeq(count_first_positive_tests(sim, t_samps[k]))

(* C9: when no worker is on the rig after rotation, run_simulation does not *)
(* abort with a division by zero in the on-site rate computation.           *)
C9_NoDivisionByZero ==
    ~(pc = "raised" /\ err = "ZeroDivisionError")

\* a rate is a probability
IsProbability(r) == RateLeq(Rate(0, 1), r) /\ RateLeq(r, Rate(1, 1))

(* C10: on every simulated day both rates of the RateMap handed to expose   *)
(* lie in [0, 1]; the on-site rate never exceeds 1.                         *)
C10_RatesAreProbabilities ==
    Len(sim) > 1 => IsProbability(rates[ON]) /\ IsProbability(rates[OFF])

(* C11: in every snapshot the number of workers on each shift equals that   *)
(* shift's initial allocation crew_size * schedule[shift].length //         *)
(* schedule[ON].length (so the head-count on the rig is crew_size on every  *)
(* day), whenever t_change <= min(days_on, days_off).                       *)
C11_ShiftCountsStayAtAllocation ==
    (params.t_change <= params.days_on /\ params.t_change <= params.days_off) =>
        \A d \in 1..Len(sim) : \A s \in {ON, OFF} :
            count_shift(sim[d], s) =
                (params.crew_size * schedule(params)[s].length)
                    \div schedule(params)[ON].length

(* C12: power(d_null, d_alt, alpha) is the number of replicates r whose     *)
(* d_alt[r] is strictly greater than the (1 - alpha) quantile of d_null,    *)
(* divided by n_sims; a replicate equal to the quantile is not counted, and *)
(* the result lies in [0, 1].                                               *)
C12_PowerIsShareStrictlyAboveQuantile ==
    power_pc = "returned" =>
        LET n_sims == Len(test_stat_alt)
            q == Quantile(test_stat_control, Rate(alpha.den - alpha.num, alpha.den))
            exceeding == {r \in 1..n_sims : test_stat_alt[r] * q.den > q.num}
        IN  /\ power_value.num * n_sims = Cardinality(exceeding) * power_value.den
            /\ IsProbability(power_value)

\* a returned call with a replicate equal to the threshold and one above it
C12_Witness ==
    /\ power_pc = "returned"
    /\ LET q == Quantile(test_stat_control, Rate(alpha.den - alpha.num, alpha.den))
       IN  /\ \E r \in 1..Len(test_stat_alt) : test_stat_alt[r] * q.den = q.num
           /\ \E r \in 1..Len(test_stat_alt) : test_stat_alt[r] * q.den > q.num
    /\ power_value.num > 0

\* every replicate has run all its days
ReplicatesFinished ==
    \A r \in 1..NumReplicates : Len(rep_sims[r]) > Len(Days(ReplicateParams.n_days))

(* C13: replicates share no mutable state: when the daily steps of two      *)
(* replicates are interleaved in any order, each replicate ends with the    *)
(* same trace it gets when the replicates run one after the other, because  *)
(* no replicate advances the source of another replicate's random draws.    *)
C13_InterleavingKeepsReplicateTraces ==
    ReplicatesFinished => rep_sims = SequentialSims(rng_stream)

\* entry k of the sum over the viruses done of entry k of their sim_cases results
SumOverViruses(k) == SumSeq([v \in 1..Len(mv_runs) |-> mv_runs[v].cases[k]])

\* run v was a sim_cases for viruses[v] from a fresh all-Susceptible crew
RunIsForVirus(v) ==
    /\ mv_runs[v].params = VirusParams(viruses[v], reduction_factor, mv_params)
    /\ mv_runs[v].params.r0.num * viruses[v].r0.den * reduction_factor.den
           = viruses[v].r0.num * reduction_factor.num * mv_runs[v].params.r0.den
    /\ mv_runs[v].cases = sim_cases(mv_runs[v].sim, mv_t_samps)
    /\ \A i \in 1..Len(mv_runs[v].sim[1]) :
        /\ mv_runs[v].sim[1][i].infection_status = S
        /\ mv_runs[v].sim[1][i].infection_status_changed_on = 0

PostUpdate ==
    [i \in 1..Len(sim[Len(sim) - 1]) |->
        update_infections(
            change_shift(sim[Len(sim) - 1][i], Len(sim) - 1, schedule(params)),
            Len(sim) - 1, params.t_inf, params.t_rec)]

\* r0 * (I_on / N_on) / (t_rec - t_inf), counted on PostUpdate
PostUpdateOnSiteRate ==
    Rate(params.r0.num
            * Cardinality({i \in 1..Len(PostUpdate) :
                PostUpdate[i].shift = ON /\ PostUpdate[i].infection_status = I}),
         params.r0.den
            * Cardinality({i \in 1..Len(PostUpdate) : PostUpdate[i].shift = ON})
            * (params.t_rec - params.t_inf))

\* the rate at which worker i is exposed on the latest day
PostUpdateRate(i) ==
    IF PostUpdate[i].shift = ON
    THEN PostUpdateOnSiteRate
    ELSE mainland_infection_rate(params.mainland_infection_rate, Len(sim) - 1)

(* C16: within the daily step of day d the on-site rate of every exposure   *)
(* draw is r0 * (I_on / N_on) / (t_rec - t_inf) with I_on and N_on counted  *)
(* on the crew after day d's rotation and progression and before any        *)
(* exposure of day d: a worker who rotates on day d is exposed at the rate  *)
(* of the shift rotated onto, and the workers exposed on day d do not       *)
(* change the rate of the others. Every worker of snapshot d is the         *)
(* post-update worker, exposed or not as some draw decides at that rate.    *)
C16_ExposureAtPostUpdateRates ==
    Len(sim) > 1 =>
        /\ rates[ON].num * PostUpdateOnSiteRate.den
               = PostUpdateOnSiteRate.num * rates[ON].den
        /\ \A i \in 1..Len(PostUpdate) :
            LET now == sim[Len(sim)][i]
                becameExposed ==
                    /\ PostUpdate[i].infection_status = S
                    /\ now = Worker(PostUpdate[i].shift, PostUpdate[i].shift_changed_on,
                                    E, Len(sim) - 1)
            IN  /\ now = PostUpdate[i] \/ becameExposed
                /\ becameExposed =>
                    \E u \in Draws : RateLeq(Rate(u, RandDen), PostUpdateRate(i))
                /\ (PostUpdate[i].infection_status = S /\ now = PostUpdate[i]) =>
                    \E u \in Draws : ~RateLeq(Rate(u, RandDen), PostUpdateRate(i))

\* a worker arrives on the rig on the day another worker there turns
\* Infectious, and is exposed at the on-site rate while the mainland rate is 0
C16_Witness ==
    /\ Len(sim) > 1
    /\ mainland_infection_rate(params.mainland_infection_rate, Len(sim) - 1).num = 0
    /\ \E i, j \in 1..Len(PostUpdate) :
        /\ sim[Len(sim) - 1][i].shift = OFF
        /\ PostUpdate[i].shift = ON
        /\ PostUpdate[i].infection_status = S
        /\ sim[Len(sim)][i].infection_status = E
        /\ sim[Len(sim) - 1][j].infection_status = E
        /\ PostUpdate[j].infection_status = I
        /\ PostUpdate[j].shift = ON

\* worker i is Susceptible in snapshot d - 1 and Exposed in snapshot d
BecomesExposedOn(i, d) ==
    /\ sim[d][i].infection_status = S
    /\ sim[d + 1][i].infection_status = E

C18_ExposeIsBernoulliTrial ==
    /\ Len(sim) > 1 =>
        \A i \in 1..Len(PostUpdate) :
            PostUpdate[i].infection_status = S =>
                /\ PostUpdateRate(i).num = 0 =>
                    sim[Len(sim)][i].infection_status = S
                /\ PostUpdateRate(i).num = PostUpdateRate(i).den =>
                    /\ sim[Len(sim)][i].infection_status = E
                    /\ sim[Len(sim)][i].infection_status_changed_on = Len(sim) - 1
    /\ (params.r0.num = 0 /\ params.mainland_infection_rate.p.num = 0) =>
        \A d \in 1..Len(sim) : \A i \in 1..Len(sim[d]) :
            sim[d][i].infection_status = S

\* the initial workers of a shift, in the order _generate_shift yields them
InitialWorkers(shift) ==
    LET OnShift(w) == w.shift = shift
    IN  SelectSeq(sim[1], OnShift)

\* every initial worker is Susceptible since day 0 and each shift has its allocation
InitialCrewIsSusceptibleAllocation ==
    /\ \A i \in 1..Len(sim[1]) :
        /\ sim[1][i].infection_status = S
        /\ sim[1][i].infection_status_changed_on = 0
    /\ \A s \in {ON, OFF} :
        Len(InitialWorkers(s)) =
            (params.crew_size * schedule(params)[s].length)
                \div schedule(params)[ON].length

(* C19 (as stated): the k-th worker (k = 0, 1, ...) generated for a shift   *)
(* has shift_changed_on = (k * t_change) mod schedule[shift].length, for    *)
(* every t_change >= 1, dividing the length or not; every initial worker is *)
(* Susceptible with infection_status_changed_on = 0 and a shift gets        *)
(* crew_size * schedule[shift].length // schedule[ON].length workers.       *)
C19_OffsetsWrapModuloLength ==
    /\ InitialCrewIsSusceptibleAllocation
    /\ \A s \in {ON, OFF} : \A k \in 0..(Len(InitialWorkers(s)) - 1) :
        InitialWorkers(s)[k + 1].shift_changed_on
            = (k * params.t_change) % schedule(params)[s].length

(* C19 (amended): the k-th worker generated for a shift has                 *)
(* shift_changed_on = (k mod m) * t_change, m being the number of multiples *)
(* of t_change below the shift's length (the offsets 0, t_change,           *)
(* 2 * t_change, ... < length, repeated cyclically); this is                *)
(* (k * t_change) mod length when t_change divides the length. Every        *)
(* initial worker is Susceptible with infection_status_changed_on = 0 and   *)
(* a shift gets crew_size * length // schedule[ON].length workers.          *)
C19_OffsetsCycleBelowLength ==
    /\ InitialCrewIsSusceptibleAllocation
    /\ \A s \in {ON, OFF} : \A k \in 0..(Len(InitialWorkers(s)) - 1) :
        LET length == schedule(params)[s].length
            m == Cardinality({x \in 0..(length - 1) : x % params.t_change = 0})
            offset == InitialWorkers(s)[k + 1].shift_changed_on
        IN  /\ offset = (k % m) * params.t_change
            /\ offset < length
            /\ length % params.t_change = 0 =>
                offset = (k * params.t_change) % length

\* a shift of length 3 staggered by 2 with a third worker, back at offset 0
C19_Witness ==
    /\ params.t_change = 2
    /\ params.days_on = 3
    /\ Len(InitialWorkers(ON)) >= 3
    /\ InitialWorkers(ON)[2].shift_changed_on = 2
    /\ InitialWorkers(ON)[3].shift_changed_on = 0

\* every worker of the crew changes shift on day d
EveryWorkerChangesShiftOn(d) ==
    \A i \in 1..Len(sim[d]) : sim[d + 1][i].shift # sim[d][i].shift

(* C20 (as stated): for every input with t_change <= min(days_on, days_off) *)
(* and at least two workers, the staggering prevents full synchrony: there  *)
(* is no simulated day on which every worker changes shift.                 *)
C20_NeverAllWorkersRotateTogether ==
    (/\ params.t_change <= params.days_on
     /\ params.t_change <= params.days_off
     /\ Len(sim[1]) >= 2) =>
        \A d \in 1..(Len(sim) - 1) : ~EveryWorkerChangesShiftOn(d)

(* C20 (amended): for every input with days_on = days_off,                  *)
(* t_change < days_on and crew_size >= 2 (so that each shift starts with    *)
(* two different offsets), there is no simulated day on which every worker  *)
(* changes shift.                                                           *)
C20_NeverAllRotateWhenStaggered ==
    (/\ params.days_on = params.days_off
     /\ params.t_change < params.days_on
     /\ params.crew_size >= 2) =>
        \A d \in 1..(Len(sim) - 1) : ~EveryWorkerChangesShiftOn(d)

\* a staggered crew on a day on which some workers rotate and others do not
C20_Witness ==
    /\ params.days_on = params.days_off
    /\ params.t_change < params.days_on
    /\ params.crew_size >= 2
    /\ \E d \in 1..(Len(sim) - 1) :
        /\ \E i \in 1..Len(sim[d]) : sim[d + 1][i].shift # sim[d][i].shift
        /\ \E i \in 1..Len(sim[d]) : sim[d + 1][i].shift = sim[d][i].shift
    /\ Len(sim) = params.n_days

\* the rotation rule on the two rotation fields alone
RotaStep(r, d) ==
    IF d - r.shift_changed_on >= (IF r.shift = ON THEN params.days_on ELSE params.days_off)
    THEN [shift |-> IF r.shift = ON THEN OFF ELSE ON, shift_changed_on |-> d]
    ELSE r

\* the shift and shift_changed_on on day d of the worker that starts with r,
\* computed from days_on and days_off alone
RECURSIVE RotaOnDay(_, _)
RotaOnDay(r, d) == IF d = 0 THEN r ELSE RotaStep(RotaOnDay(r, d - 1), d)

\* the rotation fields of the initial crew, fixed by crew_size, days_on, days_off, t_change
InitialRota ==
    LET crew == _initialize_crew(params.crew_size, schedule(params), params.t_change)
    IN  [i \in 1..Len(crew) |->
            [shift |-> crew[i].shift, shift_changed_on |-> crew[i].shift_changed_on]]

(* C21: rotation is independent of the random draws and of the infection    *)
(* process: in every run, whatever its draws, r0, t_inf, t_rec and mainland *)
(* rate, the shift and shift_changed_on of every worker index on every day  *)
(* are the values fixed by n_days, crew_size, days_on, days_off and         *)
(* t_change, so two runs that agree on these agree on them.                 *)
C21_RotationDependsOnRotaOnly ==
    \* the latest snapshot: the earlier ones were the latest of an earlier state
    \A d \in {Len(sim) - 1} :
        /\ Len(sim[d + 1]) = Len(InitialRota)
        /\ \A i \in 1..Len(sim[d + 1]) :
            [shift |-> sim[d + 1][i].shift,
             shift_changed_on |-> sim[d + 1][i].shift_changed_on]
                = RotaOnDay(InitialRota[i], d)

\* a worker rotates on the day it is Infectious while another worker, due on
\* another day and not infected, stays
C21_Witness ==
    /\ Len(sim) > 1
    /\ \E i, j \in 1..Len(sim[Len(sim)]) :
        /\ sim[Len(sim)][i].infection_status = I
        /\ sim[Len(sim)][i].shift_changed_on = Len(sim) - 1
        /\ sim[Len(sim) - 1][i].shift # sim[Len(sim)][i].shift
        /\ sim[Len(sim)][j].infection_status = S
        /\ sim[Len(sim)][j].shift_changed_on < Len(sim) - 1

\* the two fields change_shift may write, and the two expose and update_infections may write
SameInfectionFields(a, b) ==
    /\ a.infection_status = b.infection_status
    /\ a.infection_status_changed_on = b.infection_status_changed_on

SameShiftFields(a, b) ==
    /\ a.shift = b.shift
    /\ a.shift_changed_on = b.shift_changed_on

\* the rate maps the transition functions are tried with
TriedRateMaps ==
    {rates, [s \in {ON, OFF} |-> Rate(0, 1)], [s \in {ON, OFF} |-> Rate(1, 1)]}

(* C22: each transition function touches only its own fields. Applied on    *)
(* the next day to any worker of the latest snapshot: change_shift leaves   *)
(* infection_status and infection_status_changed_on unchanged,              *)
(* update_infections and expose leave shift and shift_changed_on unchanged, *)
(* and each returns its argument, all four fields equal, when its guard     *)
(* does not fire.                                                           *)
C22_TransitionsTouchOwnFieldsOnly ==
    Len(sim) >= 1 =>
        \A i \in 1..Len(sim[Len(sim)]) :
            LET day == Len(sim)
                w == sim[Len(sim)][i]
                rotated == change_shift(w, day, schedule(params))
                progressed == update_infections(rotated, day, params.t_inf, params.t_rec)
            IN  /\ SameInfectionFields(rotated, w)
                /\ day - w.shift_changed_on < schedule(params)[w.shift].length
                       => rotated = w
                /\ SameShiftFields(progressed, rotated)
                /\ ~(\/ /\ rotated.infection_status = E
                        /\ day - rotated.infection_status_changed_on >= params.t_inf
                     \/ /\ rotated.infection_status = I
                        /\ day - rotated.infection_status_changed_on
                               >= params.t_rec - params.t_inf)
                       => progressed = rotated
                /\ \A rs \in TriedRateMaps : \A u \in Draws :
                    LET exposed == expose(progressed, day, rs, u)
                    IN  /\ SameShiftFields(exposed, progressed)
                        /\ ~(/\ progressed.infection_status = S
                             /\ RateLeq(Rate(u, RandDen), rs[progressed.shift]))
                               => exposed = progressed

\* in the latest step a worker infected earlier rotated, another progressed and stayed,
\* and a third was exposed
C22_Witness ==
    /\ Len(sim) > 1
    /\ LET d == Len(sim) - 1
       IN  /\ \E i \in 1..Len(sim[d]) :
                /\ sim[d + 1][i].shift # sim[d][i].shift
                /\ sim[d + 1][i].infection_status # S
                /\ sim[d + 1][i].infection_status_changed_on
                       = sim[d][i].infection_status_changed_on
                /\ sim[d + 1][i].infection_status_changed_on # d
           /\ \E i \in 1..Len(sim[d]) :
                /\ sim[d][i].infection_status = E
                /\ sim[d + 1][i].infection_status = I
                /\ sim[d + 1][i].shift_changed_on < d
           /\ \E i \in 1..Len(sim[d]) :
                /\ sim[d][i].infection_status = S
                /\ sim[d + 1][i].infection_status = E

\* the statistics have been computed
PosTestsDone == sp_pc \in {"counted", "differences", "returned"}

(* C23: in sim_power, d_null[i][r] = c[i][r] - c[i][pi(r)] for one          *)
(* permutation pi of the replicate indices, so the entries of every row of  *)
(* d_null sum to 0, and d_alt[i][j][r] = c[i][r] - uv[i][j][r]; sim_power   *)
(* gets as far as computing them.                                           *)
C23_DifferencesArePairedAndPermuted ==
    /\ sp_pc # "raised"
    /\ sp_pc \in {"differences", "returned"} =>
        /\ \E pi \in ReplicateOrders(sp_args.n_sims) :
            \A i \in 1..Len(sp_args.n_days) : \A r \in 1..sp_args.n_sims :
                d_null[i][r] = pos_tests_control[i][r] - pos_tests_control[i][pi[r]]
        /\ \A i \in 1..Len(sp_args.n_days) :
            /\ SumSeq(d_null[i]) = 0
            /\ \A j \in 1..Len(sp_args.reduction_factors) : \A r \in 1..sp_args.n_sims :
                d_alt[i][j][r] = pos_tests_control[i][r] - pos_tests_uv[i][j][r]

(* C24: total_pos_tests(sim, t_pos) returns, for every simulation trace sim *)
(* (possibly cut to its first nd days), the integer sum over all sampling   *)
(* intervals of count_first_positive_tests(sim, t_pos): sim_power's         *)
(* statistics are these sums, and computing them does not raise.            *)
C24_TotalPosTestsIsSumOfFirstPositives ==
    /\ sp_err # "TypeError"
    /\ PosTestsDone =>
        \A i \in 1..Len(sp_args.n_days) :
            /\ \A r \in 1..Len(sims_control) :
                pos_tests_control[i][r] =
                    SumSeq(count_first_positive_tests(
                               Prefix(sims_control[r], sp_args.n_days[i]), sp_args.t_pos))
            /\ \A j \in 1..Len(sims_uv) : \A r \in 1..Len(sims_uv[j]) :
                pos_tests_uv[i][j][r] =
                    SumSeq(count_first_positive_tests(
                               Prefix(sims_uv[j][r], sp_args.n_days[i]), sp_args.t_pos))

\* crew_size > 0, days_on > 0, days_off > 0, 0 < t_change <= min(days_on, days_off),
\* t_rec > t_inf
DocumentedConstraints ==
    /\ params.crew_size > 0
    /\ params.days_on > 0
    /\ params.days_off > 0
    /\ params.t_change > 0
    /\ params.t_change <= params.days_on
    /\ params.t_change <= params.days_off
    /\ params.t_rec > params.t_inf

(* C25: for every input that satisfies the documented constraints at least  *)
(* one worker is on the rig on every simulated day, so the on-site rate is  *)
(* never computed with an on-site count of zero and the run is not ended by *)
(* that division.                                                           *)
C25_RigNeverEmpty ==
    DocumentedConstraints =>
        /\ \A d \in 1..Len(sim) : count_shift(sim[d], ON) >= 1
        /\ pc = "raised" =>
            count_shift(Updated(params, sim[Len(sim)], Len(sim)), ON) >= 1

\* worker i is on the same shift in the n + 1 consecutive snapshots d .. d + n
SameShiftThroughout(i, d, n) ==
    /\ d + n <= Len(sim) - 1
    /\ \A e \in d..(d + n) : sim[e + 1][i].shift = sim[d + 1][i].shift

\* no worker is on the same shift in length + 1 consecutive snapshots
NoStintExceedsLength ==
    \A d \in 0..(Len(sim) - 1) : \A i \in 1..Len(sim[d + 1]) :
        ~SameShiftThroughout(i, d, schedule(params)[sim[d + 1][i].shift].length)

(* C26: in every run no worker stays on the same shift for more than        *)
(* schedule[shift].length consecutive snapshots, counting from day 0: every *)
(* stint, the first one under the staggered initial offsets included, lasts *)
(* at most days_on days on the rig and days_off days off it; equivalently   *)
(* shift_changed_on <= d for every worker of snapshot d.                    *)
C26_StintsLastAtMostShiftLength ==
    /\ NoStintExceedsLength
    /\ \A d \in 0..(Len(sim) - 1) : \A i \in 1..Len(sim[d + 1]) :
        sim[d + 1][i].shift_changed_on <= d

----------------------------------------------------------------------------
(* run_simulation with object identity. A Worker is a mutable dataclass and *)
(* a snapshot is a list of references: heap[a] is the state of the object   *)
(* with identity a, crews[d + 1][i] the identity held at index i of         *)
(* snapshot d. sim is kept alongside as the value every index showed when   *)
(* its snapshot was built.                                                  *)

ObjMaxCrew == 2
ObjMaxShiftLen == 2
ObjDays == 4

\* the outcome of a call: the heap after it and the reference it returns
Returned(h, a) == [heap |-> h, ref |-> a]

\* Worker(...) builds a new object
New(h, w) == Returned(Append(h, w), Len(h) + 1)

\* change_shift assigning to the fields of its argument
change_shift_in_place(h, a, day, sched) ==
    LET worker == h[a]
        sched_entry == sched[worker.shift]
    IN  IF day - worker.shift_changed_on >= sched_entry.length
        THEN Returned([h EXCEPT ![a] =
                          Worker(sched_entry.next_shift, day,
                                 worker.infection_status,
                                 worker.infection_status_changed_on)], a)
        ELSE Returned(h, a)

change_shift_obj(h, a, day, sched) ==
    LET worker == h[a]
        sched_entry == sched[worker.shift]
    IN  IF day - worker.shift_changed_on >= sched_entry.length
        THEN New(h, Worker(sched_entry.next_shift, day,
                           worker.infection_status,
                           worker.infection_status_changed_on))
        ELSE Returned(h, a)

update_infections_obj(h, a, day, t_inf, t_rec) ==
    LET w == h[a]
    IN  IF w.infection_status = E /\ day - w.infection_status_changed_on >= t_inf
        THEN New(h, Worker(w.shift, w.shift_changed_on, I, day))
        ELSE IF w.infection_status = I
                /\ day - w.infection_status_changed_on >= t_rec - t_inf
             THEN New(h, Worker(w.shift, w.shift_changed_on, R, day))
             ELSE Returned(h, a)

expose_obj(h, a, day, infection_rates, u) ==
    LET w == h[a]
    IN  IF w.infection_status = S
           /\ RateLeq(Rate(u, RandDen), infection_rates[w.shift])
        THEN New(h, Worker(w.shift, w.shift_changed_on, E, day))
        ELSE Returned(h, a)

\* the states the references of c show in heap h
Deref(h, c) == [i \in 1..Len(c) |-> h[c[i]]]

\* the objects the generator inside cycle builds before islice stops it: one
\* per offset, and no more than num_shift
ShiftObjects(shift, crew_size, sched, t_change) ==
    LET num_shift == (crew_size * sched[shift].length) \div sched[ON].length
        offsets == StaggerOffsets(sched[shift].length, t_change)
        n == IF num_shift < Len(offsets) THEN num_shift ELSE Len(offsets)
    IN  [k \in 1..n |-> Worker(shift, offsets[k], S, 0)]

\* islice(cycle(...), num_shift): the references, cycle repeating the objects
\* of its first pass; base is the number of objects built before this call
_generate_shift_obj(base, shift, crew_size, sched, t_change) ==
    LET num_shift == (crew_size * sched[shift].length) \div sched[ON].length
        n == Len(ShiftObjects(shift, crew_size, sched, t_change))
    IN  [j \in 1..num_shift |-> base + ((j - 1) % n) + 1]

\* the heap and the list of references _initialize_crew returns
_initialize_crew_obj(crew_size, sched, t_change) ==
    LET on == ShiftObjects(Shift[1], crew_size, sched, t_change)
        off == ShiftObjects(Shift[2], crew_size, sched, t_change)
    IN  [heap |-> on \o off,
         crew |-> _generate_shift_obj(0, Shift[1], crew_size, sched, t_change)
                    \o _generate_shift_obj(Len(on), Shift[2], crew_size, sched,
                                           t_change)]

\* updated = [update_infections(w, ...) for w in changed], the generator
\* changed calling change_shift on the workers of c from index k on, in order
RECURSIVE UpdatedObj(_, _, _, _, _)
UpdatedObj(p, h, c, day, k) ==
    IF k > Len(c)
    THEN [heap |-> h, crew |-> <<>>]
    ELSE LET changed == change_shift_obj(h, c[k], day, schedule(p))
             updated == update_infections_obj(changed.heap, changed.ref, day,
                                              p.t_inf, p.t_rec)
             rest == UpdatedObj(p, updated.heap, c, day, k + 1)
         IN  [heap |-> rest.heap, crew |-> <<updated.ref>> \o rest.crew]

\* [expose(w, day, rates) for w in updated] from index k on
RECURSIVE ExposedObj(_, _, _, _, _, _)
ExposedObj(h, c, day, rs, draws, k) ==
    IF k > Len(c)
    THEN [heap |-> h, crew |-> <<>>]
    ELSE LET exposed == expose_obj(h, c[k], day, rs, draws[k])
             rest == ExposedObj(exposed.heap, c, day, rs, draws, k + 1)
         IN  [heap |-> rest.heap, crew |-> <<exposed.ref>> \o rest.crew]

_step_obj(p, h, c, day, draws) ==
    LET updated == UpdatedObj(p, h, c, day, 1)
        rs == _infection_rates(p, Deref(updated.heap, updated.crew), day)
    IN  ExposedObj(updated.heap, updated.crew, day, rs, draws, 1)

ObjectParams ==
    [n_days : {ObjDays},
     crew_size : 1..ObjMaxCrew,
     mainland_infection_rate : {[p |-> Rate(1, 2), cutoff |-> ObjDays]},
     r0 : {Rate(2, 1)},
     t_inf : {1},
     t_rec : {2},
     days_on : 1..ObjMaxShiftLen,
     days_off : 1..ObjMaxShiftLen,
     t_change : {1, ObjMaxShiftLen}]

InitObjects ==
    /\ PowerIdle
    /\ ReplicatesIdle
    /\ VirusesIdle
    /\ SimPowerIdle
    /\ PersonIdle
    /\ params \in ObjectParams
    /\ LET crew == _initialize_crew_obj(params.crew_size, schedule(params),
                                        params.t_change)
       IN  /\ heap = crew.heap
           /\ crews = <<crew.crew>>
           /\ sim = <<Deref(crew.heap, crew.crew)>>
    /\ rates = NoRates
    /\ pc = "running"
    /\ err = None
    /\ test_frequency = 0
    /\ first_pos = <<>>
    /\ t_samps = <<>>
    /\ cases = <<>>

\* one iteration of accumulate on the list of references
StepObjects ==
    /\ pc = "running"
    /\ Len(crews) <= Len(Days(params.n_days))
    /\ LET day == Days(params.n_days)[Len(crews)]
           c == crews[Len(crews)]
           updated == UpdatedObj(params, heap, c, day, 1)
           shown == Deref(updated.heap, updated.crew)
       IN  IF InfectionRatesRaises(params, shown)
           THEN /\ pc' = "raised"
                /\ err' = "ZeroDivisionError"
                /\ heap' = updated.heap
                /\ UNCHANGED <<crews, sim, rates>>
           ELSE \E draws \in AllDraws(Len(c)) :
                LET stepped == _step_obj(params, heap, c, day, draws)
                IN  /\ heap' = stepped.heap
                    /\ crews' = Append(crews, stepped.crew)
                    /\ sim' = Append(sim, Deref(stepped.heap, stepped.crew))
                    /\ rates' = _infection_rates(params, shown, day)
                    /\ UNCHANGED <<pc, err>>
    /\ UNCHANGED <<params, test_frequency, first_pos, t_samps, cases>>
    /\ UNCHANGED <<powerVars, replicateVars, virusVars, simPowerVars, personVars>>

\* days is exhausted: run_simulation returns the list of lists of references
ReturnObjects ==
    /\ pc = "running"
    /\ Len(crews) > Len(Days(params.n_days))
    /\ pc' = "returned"
    /\ UNCHANGED <<params, sim, rates, err, test_frequency, first_pos, t_samps, cases>>
    /\ UNCHANGED analysisVars

NextObjects == StepObjects \/ ReturnObjects

SpecObjects == InitObjects /\ [][NextObjects]_vars

\* snapshot k (the k-th element of the list) shows, at every index, the state
\* the value-level _step computes from what snapshot k - 1 showed
ComputedIndexwise(k) ==
    \E draws \in AllDraws(Len(sim[k - 1])) :
        sim[k] = _step(params, sim[k - 1], Days(params.n_days)[k - 1], draws)

(* C27: no daily step modifies a Worker in place. Every snapshot built so   *)
(* far still shows, at every index, the states it showed when it was built, *)
(* whatever later steps did to workers shared with it; and each snapshot    *)
(* shows at index i the rotated, progressed and exposed state of the worker *)
(* the previous snapshot showed at index i, even where the initial crew     *)
(* holds one Worker object at several indices.                              *)
C27_StepsBuildNewWorkers ==
    /\ Len(crews) = Len(sim)
    /\ \A k \in 1..Len(crews) : Deref(heap, crews[k]) = sim[k]
    /\ \A k \in 2..Len(crews) : ComputedIndexwise(k)

\* two indices started with one object, one of them was exposed and the other
\* was not, a worker has rotated, and a worker is shared by two snapshots
C27_Witness ==
    /\ Len(crews) >= 3
    /\ \E i, j \in 1..Len(crews[1]) :
        /\ i # j
        /\ crews[1][i] = crews[1][j]
        /\ \E k \in 2..Len(crews) :
            /\ crews[k][i] # crews[k][j]
            /\ heap[crews[k][i]].infection_status # heap[crews[k][j]].infection_status
    /\ \E k \in 2..Len(crews) : \E i \in 1..Len(crews[k]) :
        heap[crews[k][i]].shift # heap[crews[1][i]].shift
    /\ \E k \in 2..Len(crews) : \E i \in 1..Len(crews[k]) :
        crews[k][i] = crews[k - 1][i]

----------------------------------------------------------------------------
(* cruise.Person: a history of disease states, each with the day it starts. *)

PersonMaxDay == 3
PersonMaxHistory == 3

\* the name field of the DiseaseState values in use
DiseaseStates == {"susceptible", "infected", "recovered"}

PersonDays == 0..PersonMaxDay

\* Person.get_current_state: self.history[-1][0]
get_current_state(h) == h[Len(h)].state

\* the for loop of get_state_on_day over the entries left, state the one held
RECURSIVE StateAfter(_, _, _)
StateAfter(state, rest, day) ==
    IF rest = <<>>
    THEN state
    ELSE IF day < Head(rest).day
         THEN state
         ELSE StateAfter(Head(rest).state, Tail(rest), day)

\* Person.get_state_on_day: the state returned, or the exception raised
get_state_on_day(h, day) ==
    IF day < h[1].day
    THEN "Exception"
    ELSE StateAfter(h[1].state, Tail(h), day)

\* Person(initial_state, start_day)
InitPerson ==
    /\ RigIdle
    /\ PowerIdle
    /\ ReplicatesIdle
    /\ VirusesIdle
    /\ SimPowerIdle
    /\ ObjectsIdle
    /\ \E initial_state \in DiseaseStates, start_day \in PersonDays :
        history = <<[state |-> initial_state, day |-> start_day]>>
    /\ asked = None
    /\ answer = None

\* Person.add_state(new_state, day)
AddState ==
    /\ Len(history) < PersonMaxHistory
    /\ \E new_state \in DiseaseStates, day \in PersonDays :
        history' = Append(history, [state |-> new_state, day |-> day])
    /\ asked' = None
    /\ answer' = None
    /\ UNCHANGED <<rigVars, powerVars, replicateVars, virusVars, simPowerVars,
                   objectVars>>

\* a call of Person.get_state_on_day(day)
GetStateOnDay ==
    /\ \E day \in 0..(PersonMaxDay + 1) :
        /\ asked' = day
        /\ answer' = get_state_on_day(history, day)
    /\ UNCHANGED history
    /\ UNCHANGED <<rigVars, powerVars, replicateVars, virusVars, simPowerVars,
                   objectVars>>

NextPerson == AddState \/ GetStateOnDay

SpecPerson == InitPerson /\ [][NextPerson]_vars

\* the entries of the history that start on day d or before
StartedBy(d) == {k \in 1..Len(history) : history[k].day <= d}

\* among them, the entries with the greatest start day
LatestStartedBy(d) ==
    {k \in StartedBy(d) : \A m \in StartedBy(d) : history[m].day <= history[k].day}

(* C28: whatever add_state calls were made, a lookup of day d raises when d *)
(* is before the initial start day; otherwise it returns the state of a     *)
(* history entry with the greatest start day that is at most d (so the new  *)
(* state on the very day it was added); and for d on or after the day of    *)
(* the last added entry it returns get_current_state().                     *)
C28_LookupReturnsLatestStartedState ==
    answer # None =>
        /\ asked < history[1].day => answer = "Exception"
        /\ asked >= history[1].day =>
            \E k \in LatestStartedBy(asked) : answer = history[k].state
        /\ asked >= history[Len(history)].day => answer = get_current_state(history)

====
